---- MODULE Spec2Model ----
(***************************************************************************)
(* One run of the TikTok avatar pipeline: pipeline.main drives the audio   *)
(* step, the animation engine and composer.compose_final, which selects    *)
(* one of _export_plain, compose_chromakey and compose_rembg.              *)
(*                                                                         *)
(* Videos are sequences of frames.  A frame of the animated source video   *)
(* is its index 1..srcLen, a frame of a background video its index         *)
(* 1..bgLen; a static or synthesized background image is background 0.     *)
(* A composite frame is the record [src |-> s, bg |-> b].  Lengths of      *)
(* video and audio are counted in frames of the source's frame rate.       *)
(***************************************************************************)
EXTENDS Integers, Sequences, FiniteSets, TLC

\* ---- bounds of the model ------------------------------------------------
MaxFrames == 3    \* frames of the animated source video: 0..MaxFrames
MaxBg     == 2    \* frames of a background video: 0..MaxBg
MaxAudio  == 3    \* length of the audio track: 1..MaxAudio

None == "None"

VARIABLES
  args,         \* the parsed command line (pipeline.parse_args)
  pc,           \* position of the run
  exc,          \* the exception in flight or that ended the run, or None
  workdir,      \* TRUE while the directory made by mkdtemp exists
  audio_path,   \* main's audio_path
  audioLen,     \* length of the audio file at audio_path (0: not known yet)
  animated,     \* main's animated: path returned by the engine, or None
  srcLen,       \* number of frames cap.read() decodes from the animated video
  engineOk,     \* check_engine passed for the selected engine
  invoked,      \* strategies compose_final has called
  session,      \* number of new_session() calls
  cap,          \* source VideoCapture: "none", "open", "released"
  capPos,       \* read cursor of cap
  bg_cap,       \* background VideoCapture: "none", "open", "released"
  bgLen,        \* number of frames of the background video
  bgPos,        \* read cursor of bg_cap
  out,          \* VideoWriter on tmp_video: "none", "open", "released"
  frame,        \* the frame cap.read() returned in this iteration (0: none)
  bg_img,       \* the background of this iteration (-1: none yet, 0: static)
  bgYielded,    \* backgrounds supplied by bg_cap, in order
  written,      \* composite frames passed to out.write, in order
  frame_idx,    \* compose_rembg's frame_idx
  tmp_video,    \* the _noaudio file: "absent", "partial", "complete"
  output,       \* the file at output_path: "absent", "partial", "complete"
  outFrames,    \* video frames of the file at output_path
  procs,        \* external processes started, in order
  ioDone,       \* TRUE once the run created or wrote a file or directory
  saved,        \* TRUE once a strategy printed its "Saved" line
  srcOpens,     \* cap.isOpened() of the animated video
  engineOut,    \* how the engine ended: "none", "exit_nonzero", "no_video", "video"
  failedProc,   \* the external process that exited non-zero, or None
  removedWith,  \* the session passed to remove() for each frame, in order
  geo,          \* one frame of compose_rembg with its sizes (SpecGeom)
  pth,          \* the paths compose_rembg derives from output_path (SpecPath)
  rec           \* record_audio and its key-listener thread (SpecRec)

vars == << args, pc, exc, workdir, audio_path, audioLen, animated, srcLen,
           engineOk, invoked, session, cap, capPos, bg_cap, bgLen, bgPos, out,
           frame, bg_img, bgYielded, written, frame_idx, tmp_video, output,
           outFrames, procs, ioDone, saved, srcOpens, engineOut, failedProc,
           removedWith, geo, pth, rec >>

\* The state of one run of main.
runVars == << args, pc, exc, workdir, audio_path, audioLen, animated, srcLen,
              engineOk, invoked, session, cap, capPos, bg_cap, bgLen, bgPos,
              out, frame, bg_img, bgYielded, written, frame_idx, tmp_video,
              output, outFrames, procs, ioDone, saved, srcOpens, engineOut,
              failedProc, removedWith >>

\* The state of the specifications of single functions.
auxVars == << geo, pth, rec >>

mainVars    == << workdir, audio_path, audioLen, animated, srcLen, engineOk,
                  srcOpens, engineOut >>
rembgVars   == << session, cap, capPos, bg_cap, bgLen, bgPos, out, frame,
                  bg_img, bgYielded, written, frame_idx, tmp_video,
                  removedWith >>
outputVars  == << output, outFrames, saved >>

\* ---- helpers --------------------------------------------------------------
Min(a, b) == IF a < b THEN a ELSE b
Max(a, b) == IF a > b THEN a ELSE b

\* Python truthiness of an optional string (None and "" are false).
Truthy(s) == s # None /\ s # ""

\* `x or d` of Python.
OrElse(x, d) == IF Truthy(x) THEN x ELSE d

\* Path(p).suffix for the paths of the model.
Suffix(p) ==
  CASE p = "bg.mp4" -> ".mp4"
    [] p = "bg.jpg" -> ".jpg"
    [] OTHER        -> ""

\* str.lower on the suffixes of the model.
Lower(s) == CASE s = ".MP4" -> ".mp4" [] s = ".JPG" -> ".jpg" [] OTHER -> s

\* bg_is_video of compose_chromakey and compose_rembg.
BgIsVideo(background_path) ==
  Lower(Suffix(background_path)) \in {".mp4", ".mov", ".avi", ".webm"}

ArgsSet ==
  [ audio         : {None, "voice_in.wav", "missing.wav"},
    record_audio  : BOOLEAN,
    engine        : {"sadtalker", "liveportrait"},
    driving       : {None, "driving_in.mp4"},
    record_webcam : BOOLEAN,
    bg            : {None, "bg.jpg", "bg.mp4"},
    bg_color      : {None, "00ff00"},
    no_bg_removal : BOOLEAN ]

\* The geometry of compose_rembg, the derivation of its intermediate path and
\* the threads of record_audio are followed in specifications of their own;
\* during a run of main their variables rest at these values.
GeoIdle ==
  [ pc |-> "idle", width |-> 0, height |-> 0, bg |-> "none",
    bg_img |-> << 0, 0 >>, frame |-> << 0, 0 >>, fg_rgba |-> << 0, 0 >>,
    new_w |-> 0, x |-> 0, y |-> 0, composite |-> << 0, 0 >>,
    sink |-> << >>, exc |-> None ]
PthIdle ==
  [ pc |-> "idle", output_path |-> << >>, tmp_video |-> << >>, dirs |-> {},
    writer |-> "none", silent |-> {}, final |-> {}, mux |-> "none",
    exc |-> None ]
RecIdle ==
  [ main |-> "idle", key |-> "idle", isTTY |-> FALSE, tty |-> "cooked",
    stop_event |-> FALSE, chunks |-> 0, stream |-> "none", exc |-> None ]

\* Files that exist before the run starts.
ExistingInputs == {"voice_in.wav", "driving_in.mp4", "bg.jpg", "bg.mp4"}

RunStart(a) ==
  /\ args = a
  /\ pc = "check_requirements"
  /\ exc = None
  /\ workdir = FALSE
  /\ audio_path = None
  /\ audioLen = 0
  /\ animated = None
  /\ srcLen = 0
  /\ engineOk = FALSE
  /\ invoked = {}
  /\ session = 0
  /\ cap = "none"
  /\ capPos = 0
  /\ bg_cap = "none"
  /\ bgLen = 0
  /\ bgPos = 0
  /\ out = "none"
  /\ frame = 0
  /\ bg_img = -1
  /\ bgYielded = << >>
  /\ written = << >>
  /\ frame_idx = 0
  /\ tmp_video = "absent"
  /\ output = "absent"
  /\ outFrames = << >>
  /\ procs = << >>
  /\ ioDone = FALSE
  /\ saved = FALSE
  /\ srcOpens = FALSE
  /\ engineOut = "none"
  /\ failedProc = None
  /\ removedWith = << >>

Init ==
  /\ \E a \in ArgsSet : RunStart(a)
  /\ geo = GeoIdle
  /\ pth = PthIdle
  /\ rec = RecIdle

\* An exception raised inside main's try block: control goes to the finally
\* clause.  None of the callees catches anything.
Raise(e) == pc' = "finally" /\ exc' = e

\* ---- pipeline.main ------------------------------------------------------

\* check_requirements(): packages importable and `ffmpeg -version` exits 0,
\* or sys.exit(1) before anything was created.
CheckRequirements ==
  /\ pc = "check_requirements"
  /\ \E missing \in BOOLEAN, ffmpegOk \in BOOLEAN :
       IF missing
         THEN /\ pc' = "failed" /\ exc' = "SystemExit"
              /\ UNCHANGED procs
         ELSE /\ procs' = Append(procs, "ffmpeg_version")
              /\ IF ffmpegOk
                   THEN pc' = "mkdtemp" /\ UNCHANGED exc
                   ELSE pc' = "failed" /\ exc' = "SystemExit"
  /\ UNCHANGED << args, auxVars, mainVars, invoked, rembgVars, outputVars,
                  ioDone, failedProc >>

\* workdir = Path(tempfile.mkdtemp(...)), outside the try block.
Mkdtemp ==
  /\ pc = "mkdtemp"
  /\ workdir' = TRUE
  /\ ioDone' = TRUE
  /\ pc' = "mkdir_output"
  /\ UNCHANGED << args, auxVars, exc, audio_path, audioLen, animated, srcLen,
                  srcOpens, engineOut,
                  engineOk,
                  invoked, rembgVars, outputVars, procs, failedProc >>

\* Path(output_path).parent.mkdir(...) and get_device(), still outside the
\* try block: an OSError here leaves main without passing the finally clause.
MkdirOutput ==
  /\ pc = "mkdir_output"
  /\ \E ok \in BOOLEAN :
       IF ok THEN pc' = "audio" /\ UNCHANGED exc
             ELSE pc' = "failed" /\ exc' = "OSError"
  /\ UNCHANGED << args, auxVars, mainVars, invoked, rembgVars, outputVars,
                  procs, ioDone, failedProc >>

\* Step 1: audio.  record_audio writes workdir/voice.wav or raises; then the
\* two validation checks, each a sys.exit(1) inside the try block.
AudioStep ==
  /\ pc = "audio"
  /\ IF args.record_audio
       THEN \E recorded \in BOOLEAN, a \in 1..MaxAudio :
              /\ procs' = Append(procs, "record_audio")
              /\ IF recorded
                   THEN /\ audio_path' = "workdir/voice.wav"
                        /\ audioLen' = a
                        /\ pc' = "animate" /\ UNCHANGED exc
                   ELSE /\ Raise("RuntimeError")
                        /\ UNCHANGED << audio_path, audioLen >>
       ELSE /\ UNCHANGED procs
            /\ audio_path' = args.audio
            /\ IF ~Truthy(args.audio)
                 THEN Raise("SystemExit") /\ UNCHANGED audioLen
                 ELSE IF args.audio \notin ExistingInputs
                   THEN Raise("SystemExit") /\ UNCHANGED audioLen
                   ELSE /\ \E a \in 1..MaxAudio : audioLen' = a
                        /\ pc' = "animate" /\ UNCHANGED exc
  /\ UNCHANGED << args, auxVars, workdir, animated, srcLen, srcOpens,
                  engineOut,
                  engineOk, invoked,
                  rembgVars, outputVars, ioDone, failedProc >>

\* Step 2, first half: for liveportrait the driving video is resolved
\* (record_webcam may raise, a missing driving path is a sys.exit(1)).
Driving ==
  /\ pc = "animate"
  /\ IF args.engine = "liveportrait"
       THEN IF args.record_webcam
              THEN \E opened \in BOOLEAN :
                     /\ procs' = Append(procs, "record_webcam")
                     /\ IF opened THEN pc' = "check_engine" /\ UNCHANGED exc
                                  ELSE Raise("RuntimeError")
              ELSE /\ UNCHANGED procs
                   /\ IF ~Truthy(args.driving)
                        THEN Raise("SystemExit")
                        ELSE pc' = "check_engine" /\ UNCHANGED exc
       ELSE pc' = "check_engine" /\ UNCHANGED << exc, procs >>
  /\ UNCHANGED << args, auxVars, mainVars, invoked, rembgVars, outputVars,
                  ioDone, failedProc >>

\* check_engine(engine_dir, name): sys.exit(1) when the directory is missing.
CheckEngine ==
  /\ pc = "check_engine"
  /\ \E exists \in BOOLEAN :
       /\ engineOk' = exists
       /\ IF exists THEN pc' = "run_engine" /\ UNCHANGED exc
                    ELSE Raise("SystemExit")
  /\ UNCHANGED << args, auxVars, workdir, audio_path, audioLen, animated,
                  srcLen, srcOpens,
                  engineOut,
                  invoked, rembgVars, outputVars, procs, ioDone, failedProc >>

\* RunEngine without the `if not videos` test: an engine that exits 0 and
\* leaves no video is taken as a success.
RunEngine_NoEmptyCheck ==
  /\ pc = "run_engine"
  /\ procs' = Append(procs, args.engine)
  /\ \E rc \in {0, 1}, produced \in BOOLEAN, opens \in BOOLEAN,
        n \in 0..MaxFrames :
       IF rc # 0
         THEN /\ Raise("CalledProcessError")
              /\ engineOut' = "exit_nonzero"
              /\ failedProc' = args.engine
              /\ UNCHANGED << animated, srcLen, srcOpens >>
         ELSE /\ animated' = IF produced THEN "workdir/animated/result.mp4"
                                         ELSE ""
              /\ srcOpens' = (produced /\ opens)
              /\ srcLen' = IF produced /\ opens THEN n ELSE 0
              /\ engineOut' = IF produced THEN "video" ELSE "no_video"
              /\ pc' = "compose_final" /\ UNCHANGED << exc, failedProc >>
  /\ UNCHANGED << args, auxVars, workdir, audio_path, audioLen, engineOk,
                  invoked, rembgVars, outputVars, ioDone >>

\* run_sadtalker / run_liveportrait after check_engine: one subprocess.run
\* with check=True, then the newest .mp4 under output_dir or RuntimeError.
RunEngine ==
  /\ pc = "run_engine"
  /\ procs' = Append(procs, args.engine)
  /\ \E rc \in {0, 1}, produced \in BOOLEAN, opens \in BOOLEAN,
        n \in 0..MaxFrames :
       IF rc # 0
         THEN /\ Raise("CalledProcessError")
              /\ engineOut' = "exit_nonzero"
              /\ failedProc' = args.engine
              /\ UNCHANGED << animated, srcLen, srcOpens >>
         ELSE IF ~produced
           THEN /\ Raise("RuntimeError")
                /\ engineOut' = "no_video"
                /\ UNCHANGED << animated, srcLen, srcOpens, failedProc >>
           ELSE /\ animated' = "workdir/animated/result.mp4"
                /\ srcOpens' = opens
                /\ srcLen' = IF opens THEN n ELSE 0
                /\ engineOut' = "video"
                /\ pc' = "compose_final" /\ UNCHANGED << exc, failedProc >>
  /\ UNCHANGED << args, auxVars, workdir, audio_path, audioLen, engineOk,
                  invoked, rembgVars, outputVars, ioDone >>

\* ---- composer.compose_final ---------------------------------------------

\* SelectStrategy with the key colour tested before remove_bg.
SelectStrategy_ColorFirst(remove_bg, bg_color, bg) ==
  IF Truthy(bg_color)
    THEN IF ~Truthy(bg) THEN "error" ELSE "chromakey"
    ELSE IF ~remove_bg THEN "plain" ELSE "rembg"

\* The branch compose_final takes: "plain", "chromakey", "rembg", or "error"
\* for the ValueError.
SelectStrategy(remove_bg, bg_color, bg) ==
  IF ~remove_bg THEN "plain"
  ELSE IF Truthy(bg_color)
    THEN IF ~Truthy(bg) THEN "error" ELSE "chromakey"
    ELSE "rembg"

ComposeFinal ==
  /\ pc = "compose_final"
  /\ LET bg == OrElse(args.bg, "")
         s  == SelectStrategy(~args.no_bg_removal, args.bg_color, bg)
     IN IF s = "error"
          THEN Raise("ValueError") /\ UNCHANGED invoked
          ELSE /\ invoked' = invoked \cup {s}
               /\ pc' = CASE s = "plain"     -> "plain_start"
                          [] s = "chromakey" -> "chromakey_start"
                          [] s = "rembg"     -> "rembg_open"
               /\ UNCHANGED exc
  /\ UNCHANGED << args, auxVars, mainVars, rembgVars, outputVars, procs,
                  ioDone, failedProc >>

\* ---- ffmpeg, as the command lines of composer.py drive it ----------------

\* -shortest: the output ends with its shortest stream.  A looped still image
\* (-loop 1) is a video stream without end.
Shortest(videoLen, endless, a) == IF endless THEN a ELSE Min(videoLen, a)

\* _export_plain: scale and pad every source frame, mux, -shortest.
PlainOutput(n, a) ==
  [k \in 1..Shortest(n, FALSE, a) |-> [src |-> k, bg |-> 0]]

\* compose_chromakey's filter graph [bg][fg]overlay with the default
\* eof_action=repeat and shortest=0: the overlay runs while either input has
\* frames and holds the last frame of the input that ended.  The background
\* input carries -loop 1 only when it is a still image (loop), never
\* -stream_loop when it is a video of b frames.
ChromakeyOutput(n, b, loop, a) ==
  [k \in 1..Shortest(Max(b, n), loop, a) |->
     [src |-> Min(k, n), bg |-> IF loop THEN 0 ELSE Min(k, b)]]

\* The mux of compose_rembg: -c:v copy of the silent video, -shortest.
MuxOutput(silent, a) == SubSeq(silent, 1, Shortest(Len(silent), FALSE, a))

\* ---- composer._export_plain ---------------------------------------------

\* ffmpeg is started on output_path (-y): it fails before opening the output
\* or creates the file and starts writing.
PlainStart ==
  /\ pc = "plain_start"
  /\ procs' = Append(procs, "ffmpeg_plain")
  /\ \E opens \in BOOLEAN :
       IF opens THEN /\ output' = "partial" /\ outFrames' = << >>
                     /\ pc' = "plain_run" /\ UNCHANGED << exc, failedProc >>
                ELSE Raise("CalledProcessError") /\ failedProc' = "ffmpeg_plain"
                   /\ UNCHANGED << output, outFrames >>
  /\ UNCHANGED << args, auxVars, mainVars, invoked, rembgVars, saved, ioDone >>

\* subprocess.run(cmd, check=True) returns, or raises on a non-zero exit.
PlainEnd ==
  /\ pc = "plain_run"
  /\ \E rc \in {0, 1} :
       IF rc = 0 /\ srcLen >= 1
         THEN /\ output' = "complete"
              /\ outFrames' = PlainOutput(srcLen, audioLen)
              /\ saved' = TRUE
              /\ pc' = "report" /\ UNCHANGED << exc, failedProc >>
         ELSE Raise("CalledProcessError") /\ failedProc' = "ffmpeg_plain"
                   /\ UNCHANGED outputVars
  /\ UNCHANGED << args, auxVars, mainVars, invoked, rembgVars, procs, ioDone >>

\* ---- composer.compose_chromakey -----------------------------------------

ChromakeyStart ==
  /\ pc = "chromakey_start"
  /\ procs' = Append(procs, "ffmpeg_chromakey")
  /\ \E b \in 0..MaxBg, opens \in BOOLEAN :
       /\ bgLen' = IF BgIsVideo(args.bg) THEN b ELSE 0
       /\ IF opens THEN /\ output' = "partial" /\ outFrames' = << >>
                        /\ pc' = "chromakey_run" /\ UNCHANGED << exc,
                                                                 failedProc >>
                   ELSE Raise("CalledProcessError") /\ failedProc' = "ffmpeg_chromakey"
                   /\ UNCHANGED << output, outFrames >>
  /\ UNCHANGED << args, auxVars, mainVars, invoked, session, removedWith, cap,
                  capPos, bg_cap, bgPos,
                  out, frame, bg_img, bgYielded, written, frame_idx, tmp_video,
                  saved, ioDone >>

ChromakeyEnd ==
  /\ pc = "chromakey_run"
  /\ \E rc \in {0, 1} :
       IF rc = 0 /\ srcLen >= 1 /\ (BgIsVideo(args.bg) => bgLen >= 1)
         THEN /\ output' = "complete"
              /\ outFrames' = ChromakeyOutput(srcLen, bgLen, ~BgIsVideo(args.bg),
                                              audioLen)
              /\ pc' = "report" /\ UNCHANGED << exc, saved, failedProc >>
         ELSE Raise("CalledProcessError") /\ failedProc' = "ffmpeg_chromakey"
                   /\ UNCHANGED outputVars
  /\ UNCHANGED << args, auxVars, mainVars, invoked, rembgVars, procs, ioDone >>

\* ---- composer.compose_rembg ---------------------------------------------

\* Lines 78-106: new_session, the source VideoCapture, the background
\* (VideoCapture of a video, Image.open of a still image, which raises on an
\* unreadable file, or the synthesized gradient), then the VideoWriter on
\* tmp_video.  The constructors of cv2 do not raise on a file they cannot open.
RembgOpen ==
  /\ pc = "rembg_open"
  /\ session' = session + 1
  /\ cap' = "open"
  /\ capPos' = 0
  /\ LET background_path == OrElse(args.bg, "")
     IN IF Truthy(background_path) /\ BgIsVideo(background_path)
          THEN \E b \in 0..MaxBg :
                 /\ bg_cap' = "open" /\ bgLen' = b /\ bgPos' = 0
                 /\ UNCHANGED bg_img
                 /\ out' = "open" /\ tmp_video' = "partial"
                 /\ pc' = "rembg_read" /\ UNCHANGED exc
          ELSE \E readable \in BOOLEAN :
                 /\ UNCHANGED << bg_cap, bgLen, bgPos >>
                 /\ IF Truthy(background_path) /\ ~readable
                      THEN /\ Raise("OSError")
                           /\ UNCHANGED << bg_img, out, tmp_video >>
                      ELSE /\ bg_img' = 0
                           /\ out' = "open" /\ tmp_video' = "partial"
                           /\ pc' = "rembg_read" /\ UNCHANGED exc
  /\ UNCHANGED << args, auxVars, mainVars, invoked, frame, bgYielded, written,
                  removedWith,
                  frame_idx, outputVars, procs, ioDone, failedProc >>

\* RembgRead whose break goes straight to the mux, past the release calls.
RembgRead_SkipsClosing ==
  /\ pc = "rembg_read"
  /\ IF capPos < srcLen
       THEN /\ capPos' = capPos + 1
            /\ frame' = capPos + 1
            /\ pc' = "rembg_bg"
       ELSE /\ pc' = "rembg_mux_start"
            /\ UNCHANGED << capPos, frame >>
  /\ UNCHANGED << args, auxVars, exc, mainVars, invoked, session, removedWith,
                  cap, bg_cap, bgLen, bgPos, out, bg_img, bgYielded, written,
                  frame_idx, tmp_video, outputVars, procs, ioDone, failedProc >>

\* ret, frame = cap.read(); if not ret: break
RembgRead ==
  /\ pc = "rembg_read"
  /\ IF capPos < srcLen
       THEN /\ capPos' = capPos + 1
            /\ frame' = capPos + 1
            /\ pc' = "rembg_bg"
       ELSE /\ pc' = "rembg_release"
            /\ UNCHANGED << capPos, frame >>
  /\ UNCHANGED << args, auxVars, exc, mainVars, invoked, session, removedWith,
                  cap, bg_cap, bgLen,
                  bgPos, out, bg_img, bgYielded, written, frame_idx, tmp_video,
                  outputVars, procs, ioDone, failedProc >>

\* RembgBackground without the rewind: a failed read of the background video
\* is passed on as it is.
RembgBackground_NoRewind ==
  /\ pc = "rembg_bg"
  /\ IF bg_cap # "none"
       THEN IF bgPos < bgLen
              THEN /\ bgPos' = bgPos + 1
                   /\ bg_img' = bgPos + 1
                   /\ bgYielded' = Append(bgYielded, bgPos + 1)
                   /\ pc' = "rembg_remove" /\ UNCHANGED exc
              ELSE /\ Raise("cv2.error")
                   /\ UNCHANGED << bgPos, bg_img, bgYielded >>
       ELSE /\ pc' = "rembg_remove"
            /\ UNCHANGED << exc, bgPos, bg_img, bgYielded >>
  /\ UNCHANGED << args, auxVars, mainVars, invoked, session, removedWith, cap,
                  capPos, bg_cap, bgLen,
                  out, frame, written, frame_idx, tmp_video, outputVars, procs,
                  ioDone, failedProc >>

\* Lines 117-124: the background of this frame.  A failed read rewinds the
\* background video and reads once more; when that read fails too, bg_frame
\* is None and cv2.cvtColor raises.
RembgBackground ==
  /\ pc = "rembg_bg"
  /\ IF bg_cap # "none"
       THEN IF bgPos < bgLen
              THEN /\ bgPos' = bgPos + 1
                   /\ bg_img' = bgPos + 1
                   /\ bgYielded' = Append(bgYielded, bgPos + 1)
                   /\ pc' = "rembg_remove" /\ UNCHANGED exc
              ELSE IF 0 < bgLen
                THEN /\ bgPos' = 1
                     /\ bg_img' = 1
                     /\ bgYielded' = Append(bgYielded, 1)
                     /\ pc' = "rembg_remove" /\ UNCHANGED exc
                ELSE /\ bgPos' = 0
                     /\ Raise("cv2.error")
                     /\ UNCHANGED << bg_img, bgYielded >>
       ELSE /\ pc' = "rembg_remove"
            /\ UNCHANGED << exc, bgPos, bg_img, bgYielded >>
  /\ UNCHANGED << args, auxVars, mainVars, invoked, session, removedWith, cap,
                  capPos, bg_cap, bgLen,
                  out, frame, written, frame_idx, tmp_video, outputVars, procs,
                  ioDone, failedProc >>

\* RembgRemove that builds a new session for every frame.
RembgRemove_NewSession ==
  /\ pc = "rembg_remove"
  /\ \E ok \in BOOLEAN :
       IF ok THEN /\ session' = session + 1
                  /\ removedWith' = Append(removedWith, session + 1)
                  /\ pc' = "rembg_write" /\ UNCHANGED exc
             ELSE Raise("RembgError") /\ UNCHANGED << session, removedWith >>
  /\ UNCHANGED << args, auxVars, mainVars, invoked, cap, capPos,
                  bg_cap, bgLen, bgPos, out, frame, bg_img, bgYielded, written,
                  frame_idx, tmp_video, outputVars, procs, ioDone, failedProc >>

\* fg_rgba = remove(frame_pil, session=session): the model may fail on a frame.
RembgRemove ==
  /\ pc = "rembg_remove"
  /\ \E ok \in BOOLEAN :
       IF ok THEN /\ removedWith' = Append(removedWith, session)
                  /\ pc' = "rembg_write" /\ UNCHANGED exc
             ELSE Raise("RembgError") /\ UNCHANGED removedWith
  /\ UNCHANGED << args, auxVars, mainVars, invoked, session, cap, capPos,
                  bg_cap, bgLen, bgPos, out, frame, bg_img, bgYielded, written,
                  frame_idx, tmp_video, outputVars, procs, ioDone, failedProc >>

\* RembgWrite that skips out.write on every second frame.
RembgWrite_SkipsFrame ==
  /\ pc = "rembg_write"
  /\ written' = IF frame % 2 = 1
                  THEN Append(written, [src |-> frame, bg |-> bg_img])
                  ELSE written
  /\ frame_idx' = frame_idx + 1
  /\ pc' = "rembg_read"
  /\ UNCHANGED << args, auxVars, exc, mainVars, invoked, session, removedWith,
                  cap, capPos, bg_cap,
                  bgLen, bgPos, out, frame, bg_img, bgYielded, tmp_video,
                  outputVars, procs, ioDone, failedProc >>

\* Lines 131-146: scale, paste on a copy of bg_img, out.write, frame_idx += 1.
RembgWrite ==
  /\ pc = "rembg_write"
  /\ written' = Append(written, [src |-> frame, bg |-> bg_img])
  /\ frame_idx' = frame_idx + 1
  /\ pc' = "rembg_read"
  /\ UNCHANGED << args, auxVars, exc, mainVars, invoked, session, removedWith,
                  cap, capPos, bg_cap,
                  bgLen, bgPos, out, frame, bg_img, bgYielded, tmp_video,
                  outputVars, procs, ioDone, failedProc >>

\* Lines 148-151, reached only when the loop ends by break.
RembgRelease ==
  /\ pc = "rembg_release"
  /\ cap' = "released"
  /\ out' = "released"
  /\ tmp_video' = "complete"
  /\ bg_cap' = IF bg_cap # "none" THEN "released" ELSE bg_cap
  /\ pc' = "rembg_mux_start"
  /\ UNCHANGED << args, auxVars, exc, mainVars, invoked, session, removedWith,
                  capPos, bgLen, bgPos,
                  frame, bg_img, bgYielded, written, frame_idx, outputVars,
                  procs, ioDone, failedProc >>

\* The mux is started on output_path (-y).
RembgMuxStart ==
  /\ pc = "rembg_mux_start"
  /\ procs' = Append(procs, "ffmpeg_mux")
  /\ \E opens \in BOOLEAN :
       IF opens THEN /\ output' = "partial" /\ outFrames' = << >>
                     /\ pc' = "rembg_mux_run" /\ UNCHANGED << exc,
                                                              failedProc >>
                ELSE Raise("CalledProcessError") /\ failedProc' = "ffmpeg_mux"
                   /\ UNCHANGED << output, outFrames >>
  /\ UNCHANGED << args, auxVars, mainVars, invoked, rembgVars, saved, ioDone >>

\* RembgMuxEnd with check=False: a non-zero exit of the mux is ignored.
RembgMuxEnd_Unchecked ==
  /\ pc = "rembg_mux_run"
  /\ \E rc \in {0, 1} :
       /\ output' = IF rc = 0 THEN "complete" ELSE output
       /\ outFrames' = IF rc = 0 THEN MuxOutput(written, audioLen) ELSE outFrames
       /\ failedProc' = IF rc = 0 THEN failedProc ELSE "ffmpeg_mux"
       /\ tmp_video' = "absent"
       /\ saved' = TRUE
       /\ pc' = "report" /\ UNCHANGED exc
  /\ UNCHANGED << args, auxVars, mainVars, invoked, session, removedWith, cap,
                  capPos, bg_cap, bgLen, bgPos, out, frame, bg_img, bgYielded,
                  written, frame_idx, procs, ioDone >>

\* subprocess.run(cmd, check=True) returns and tmp_video is unlinked, or it
\* raises on a non-zero exit and line 167 is not reached.
RembgMuxEnd ==
  /\ pc = "rembg_mux_run"
  /\ \E rc \in {0, 1} :
       IF rc = 0
         THEN /\ output' = "complete"
              /\ outFrames' = MuxOutput(written, audioLen)
              /\ tmp_video' = "absent"
              /\ saved' = TRUE
              /\ pc' = "report" /\ UNCHANGED << exc, failedProc >>
         ELSE Raise("CalledProcessError") /\ failedProc' = "ffmpeg_mux"
                   /\ UNCHANGED << outputVars, tmp_video >>
  /\ UNCHANGED << args, auxVars, mainVars, invoked, session, removedWith, cap,
                  capPos, bg_cap, bgLen,
                  bgPos, out, frame, bg_img, bgYielded, written, frame_idx,
                  procs, ioDone >>

\* ---- the end of main ----------------------------------------------------

\* Positions inside main's try block.
TryPcs ==
  { "audio", "animate", "check_engine", "run_engine", "compose_final",
    "plain_start", "plain_run", "chromakey_start", "chromakey_run",
    "rembg_open", "rembg_read", "rembg_bg", "rembg_remove", "rembg_write",
    "rembg_release", "rembg_mux_start", "rembg_mux_run", "report" }

\* The user interrupts the run (KeyboardInterrupt) inside the try block.
Interrupt ==
  /\ pc \in TryPcs
  /\ Raise("KeyboardInterrupt")
  /\ UNCHANGED << args, auxVars, mainVars, invoked, rembgVars, outputVars,
                  procs, ioDone, failedProc >>

\* print("Done") after compose_final returned.
Report ==
  /\ pc = "report"
  /\ pc' = "finally"
  /\ UNCHANGED << args, auxVars, exc, mainVars, invoked, rembgVars, outputVars,
                  procs,
                  ioDone, failedProc >>

\* finally: shutil.rmtree(workdir, ignore_errors=True)
Finally ==
  /\ pc = "finally"
  /\ workdir' = FALSE
  /\ pc' = IF exc = None THEN "done" ELSE "failed"
  /\ UNCHANGED << args, auxVars, exc, audio_path, audioLen, animated, srcLen,
                  srcOpens, engineOut,
                  engineOk,
                  invoked, rembgVars, outputVars, procs, ioDone, failedProc >>

Terminated == pc \in {"done", "failed"}

Next ==
  \/ CheckRequirements
  \/ Mkdtemp
  \/ MkdirOutput
  \/ AudioStep
  \/ Driving
  \/ CheckEngine
  \/ RunEngine
  \/ ComposeFinal
  \/ PlainStart
  \/ PlainEnd
  \/ ChromakeyStart
  \/ ChromakeyEnd
  \/ RembgOpen
  \/ RembgRead
  \/ RembgBackground
  \/ RembgRemove
  \/ RembgWrite
  \/ RembgRelease
  \/ RembgMuxStart
  \/ RembgMuxEnd
  \/ Interrupt
  \/ Report
  \/ Finally

Spec == Init /\ [][Next]_vars

\* ==== sizes and positions of one frame of compose_rembg ===================
\* Python computes `scale = height / ah` and `aw * scale` in IEEE 754 binary64
\* (round to nearest, ties to even).  A positive double is the record
\* [hi, mid, lo, e]: its DoubleBits-bit mantissa, first bit 1, is cut into
\* limbs of 18, 18 and 17 bits, and its value is
\* (hi * 2^35 + mid * 2^17 + lo) * 2^e.

DoubleBits == 53

RECURSIVE ExpUp(_, _), ExpDown(_, _), Pow2(_), BitLen(_)

Pow2(k) == IF k = 0 THEN 1 ELSE 2 * Pow2(k - 1)

\* The number of binary digits of a natural number, 0 for 0.
BitLen(v) == IF v = 0 THEN 0 ELSE 1 + BitLen(v \div 2)

\* The largest k >= 0 with d * 2^k <= n (for n >= d).
ExpUp(n, d) == IF 2 * d <= n THEN 1 + ExpUp(n, 2 * d) ELSE 0

\* The smallest j >= 0 with n * 2^j >= d.
ExpDown(n, d) == IF n >= d THEN 0 ELSE 1 + ExpDown(2 * n, d)

Limb == Pow2(18)
LowLimb == Pow2(17)

\* The mantissa plus one unit in the last place.
Inc(x) ==
  IF x.lo + 1 < LowLimb THEN [x EXCEPT !.lo = x.lo + 1]
  ELSE IF x.mid + 1 < Limb THEN [x EXCEPT !.lo = 0, !.mid = x.mid + 1]
  ELSE IF x.hi + 1 < Limb THEN [x EXCEPT !.lo = 0, !.mid = 0, !.hi = x.hi + 1]
  ELSE [hi |-> LowLimb, mid |-> 0, lo |-> 0, e |-> x.e + 1]

\* Round to nearest, ties to even: x is the exact value cut off after
\* DoubleBits bits, half is the first bit cut off, more says whether anything
\* non-zero follows it.
RoundDouble(x, half, more) ==
  IF half /\ (more \/ x.lo % 2 = 1) THEN Inc(x) ELSE x

\* float(n) / float(d) for integers n, d >= 1: long division, limb by limb,
\* of nn / dd in [1, 2) to DoubleBits + 1 bits.
FloatDiv(n, d) ==
  LET up   == IF n >= d THEN ExpUp(n, d) ELSE 0
      down == IF n >= d THEN 0 ELSE ExpDown(n, d)
      nn   == n * Pow2(down)
      dd   == d * Pow2(up)
      q1   == (nn * LowLimb) \div dd
      r1   == (nn * LowLimb) % dd
      q2   == (r1 * Limb) \div dd
      r2   == (r1 * Limb) % dd
      q3   == (r2 * Limb) \div dd
      r3   == (r2 * Limb) % dd
  IN RoundDouble([hi |-> q1, mid |-> q2, lo |-> q3 \div 2,
                  e |-> up - down - (DoubleBits - 1)],
                 q3 % 2 = 1, r3 > 0)

\* a * x for an integer 1 <= a < 2^13 and a double x: the exact product,
\* then the j bits beyond DoubleBits are cut off and rounded.
FloatMulInt(a, x) ==
  LET p3 == x.lo * a
      p2 == x.mid * a + (p3 \div LowLimb)
      p1 == x.hi * a + (p2 \div Limb)
      P3 == p3 % LowLimb
      P2 == p2 % Limb
      j  == BitLen(p1) - 18
      cut == Pow2(j)
      dropped == P3 % cut
  IN IF j = 0 THEN [hi |-> p1, mid |-> P2, lo |-> P3, e |-> x.e]
     ELSE RoundDouble([hi  |-> p1 \div cut,
                       mid |-> (P2 \div cut) + (p1 % cut) * (Limb \div cut),
                       lo  |-> (P3 \div cut) + (P2 % cut) * (LowLimb \div cut),
                       e   |-> x.e + j],
                      dropped >= cut \div 2,
                      dropped % (cut \div 2) > 0)

\* int(x) for a double 0 <= x < 2^18: the digits before the binary point.
FloatToInt(x) ==
  IF -x.e >= DoubleBits THEN 0 ELSE x.hi \div Pow2(-x.e - 35)

\* Lines 132-133: scale = height / ah; new_w = int(aw * scale).
NewWidth(aw, ah, height) == FloatToInt(FloatMulInt(aw, FloatDiv(height, ah)))

\* ---- one call of compose_rembg, followed for sizes only ------------------
\* A PIL image is known by its size << width, height >>, a numpy array by its
\* shape << rows, columns >>.

MaxWidth == 3
MaxSide  == 15

FromArray(shape) == << shape[2], shape[1] >>   \* Image.fromarray
AsArray(size)    == << size[2], size[1] >>     \* np.array(image)
Resize(size, to) == to                         \* image.resize(to)
CvtColor(shape)  == shape                      \* cv2.cvtColor

\* The run variables rest at the start of a run while a call is followed.
RunIdle == RunStart(CHOOSE a \in ArgsSet : TRUE)

InitGeom ==
  /\ RunIdle
  /\ \E w \in 1..MaxWidth, h \in 1..MaxSide, b \in {"none", "image", "video"} :
       geo = [GeoIdle EXCEPT !.pc = "prepare", !.width = w, !.height = h,
                             !.bg = b]
  /\ pth = PthIdle
  /\ rec = RecIdle

\* GeoPrepare that builds the default background with width rows and height
\* columns.
GeoPrepare_Transposed ==
  /\ geo.pc = "prepare"
  /\ \E iw \in 1..MaxWidth, ih \in 1..MaxWidth :
       geo' = [geo EXCEPT
                 !.pc = "read",
                 !.bg_img =
                   CASE geo.bg = "image" ->
                          Resize(<< iw, ih >>, << geo.width, geo.height >>)
                     [] geo.bg = "none" ->
                          FromArray(<< geo.width, geo.height >>)
                     [] OTHER -> geo.bg_img]
  /\ UNCHANGED << runVars, pth, rec >>

\* Lines 88-101: a still background is resized once, the default one is built
\* as an array of height rows and width columns; a video is only opened.
GeoPrepare ==
  /\ geo.pc = "prepare"
  /\ \E iw \in 1..MaxWidth, ih \in 1..MaxWidth :
       geo' = [geo EXCEPT
                 !.pc = "read",
                 !.bg_img =
                   CASE geo.bg = "image" ->
                          Resize(<< iw, ih >>, << geo.width, geo.height >>)
                     [] geo.bg = "none" ->
                          FromArray(<< geo.height, geo.width >>)
                     [] OTHER -> geo.bg_img]
  /\ UNCHANGED << runVars, pth, rec >>

\* Lines 111-114: every frame of one source video has the same shape.
GeoRead ==
  /\ geo.pc = "read"
  /\ \/ /\ Len(geo.sink) < MaxFrames
        /\ \E fw \in 1..MaxSide, fh \in 1..MaxSide :
             /\ geo.sink # << >> => geo.frame = << fh, fw >>
             /\ geo' = [geo EXCEPT !.pc = "background",
                                   !.frame = << fh, fw >>]
     \/ geo' = [geo EXCEPT !.pc = "done"]
  /\ UNCHANGED << runVars, pth, rec >>

\* Lines 117-124: a background video gives a frame of its own shape, resized
\* to the canvas, or no frame at all (cv2.cvtColor of None raises).
GeoBackground ==
  /\ geo.pc = "background"
  /\ \/ /\ geo.bg # "video"
        /\ geo' = [geo EXCEPT !.pc = "remove"]
     \/ /\ geo.bg = "video"
        /\ \E bw \in 1..MaxWidth, bh \in 1..MaxWidth :
             geo' = [geo EXCEPT
                       !.pc = "remove",
                       !.bg_img = Resize(FromArray(CvtColor(<< bh, bw >>)),
                                         << geo.width, geo.height >>)]
     \/ /\ geo.bg = "video"
        /\ geo' = [geo EXCEPT !.pc = "failed", !.exc = "cv2.error"]
  /\ UNCHANGED << runVars, pth, rec >>

\* Lines 127-128: rembg.remove returns an image of the size of its input.
GeoRemove ==
  /\ geo.pc = "remove"
  /\ geo' = [geo EXCEPT !.pc = "scale",
                        !.fg_rgba = FromArray(CvtColor(geo.frame))]
  /\ UNCHANGED << runVars, pth, rec >>

\* Lines 131-134: PIL's resize raises ValueError for a width below 1.
GeoScale ==
  /\ geo.pc = "scale"
  /\ LET aw    == geo.fg_rgba[1]
         ah    == geo.fg_rgba[2]
         new_w == NewWidth(aw, ah, geo.height)
     IN IF new_w < 1
          THEN geo' = [geo EXCEPT !.pc = "failed", !.new_w = new_w,
                                  !.exc = "ValueError"]
          ELSE geo' = [geo EXCEPT
                         !.pc = "paste", !.new_w = new_w,
                         !.fg_rgba = Resize(geo.fg_rgba,
                                            << new_w, geo.height >>)]
  /\ UNCHANGED << runVars, pth, rec >>

\* Lines 137-139: paste keeps the size of the image pasted onto.
GeoPaste ==
  /\ geo.pc = "paste"
  /\ geo' = [geo EXCEPT !.pc = "write",
                        !.composite = geo.bg_img,
                        !.x = (geo.width - geo.new_w) \div 2,
                        !.y = 0]
  /\ UNCHANGED << runVars, pth, rec >>

\* Line 141.
GeoWrite ==
  /\ geo.pc = "write"
  /\ geo' = [geo EXCEPT
               !.pc = "read",
               !.sink = Append(geo.sink, CvtColor(AsArray(geo.composite)))]
  /\ UNCHANGED << runVars, pth, rec >>

NextGeom ==
  \/ GeoPrepare
  \/ GeoRead
  \/ GeoBackground
  \/ GeoRemove
  \/ GeoScale
  \/ GeoPaste
  \/ GeoWrite

SpecGeom == InitGeom /\ [][NextGeom]_vars

\* ==== the intermediate path of compose_rembg ==============================
\* A path string is a sequence of pieces: a name, a separator or an extension.
\* str.replace works on the string; pathlib and the file system work on what
\* the string names.

MaxPath == 5

Pieces == {"a", "/", ".mp4", ".mov"}

RECURSIVE Replace(_, _, _), Split(_), Strings(_)

\* All strings of at most n pieces.
Strings(n) ==
  IF n = 0 THEN {<< >>}
  ELSE LET shorter == Strings(n - 1)
       IN shorter \cup {Append(t, c) : t \in shorter, c \in Pieces}

\* str.replace(old, new): every occurrence, left to right, not overlapping.
Replace(str, old, new) ==
  IF Len(str) < Len(old) THEN str
  ELSE IF SubSeq(str, 1, Len(old)) = old
         THEN new \o Replace(SubSeq(str, Len(old) + 1, Len(str)), old, new)
         ELSE << Head(str) >> \o Replace(Tail(str), old, new)

\* The components of a path string: what stands between separators.
Split(str) ==
  IF str = << >> THEN << >>
  ELSE IF Head(str) = "/" THEN Split(Tail(str))
  ELSE LET stops == {i \in 1..Len(str) : str[i] = "/"}
           n     == IF stops = {} THEN Len(str) + 1
                    ELSE CHOOSE i \in stops : \A k \in stops : i <= k
       IN << SubSeq(str, 1, n - 1) >> \o Split(SubSeq(str, n, Len(str)))

\* pathlib.Path(str): two strings name the same file iff their paths are equal.
PurePath(str) ==
  [root |-> (str # << >> /\ Head(str) = "/"), parts |-> Split(str)]

Parent(p) ==
  [p EXCEPT !.parts = IF p.parts = << >> THEN << >>
                      ELSE SubSeq(p.parts, 1, Len(p.parts) - 1)]

\* mkdir(parents=True, exist_ok=True): the directory and all above it.
MadeBy(dir) ==
  {[dir EXCEPT !.parts = SubSeq(dir.parts, 1, k)] : k \in 0..Len(dir.parts)}

\* The strings --output can name a file with: the last piece is no separator.
OutputPaths == {str \in Strings(MaxPath) : str # << >> /\ str[Len(str)] # "/"}

InitPath ==
  /\ RunIdle
  /\ geo = GeoIdle
  /\ \E str \in OutputPaths :
       pth = [PthIdle EXCEPT !.pc = "mkdir", !.output_path = str]
  /\ rec = RecIdle

\* pipeline.py line 93 and composer.py line 78, on a file system that holds
\* the working directory and nothing else.
PathMkdir ==
  /\ pth.pc = "mkdir"
  /\ pth' = [pth EXCEPT !.pc = "derive",
                        !.dirs = MadeBy(Parent(PurePath(pth.output_path)))]
  /\ UNCHANGED << runVars, geo, rec >>

\* Line 104.
PathDerive ==
  /\ pth.pc = "derive"
  /\ pth' = [pth EXCEPT
               !.pc = "writer",
               !.tmp_video = Replace(pth.output_path, << ".mp4" >>,
                                     << "_noaudio", ".mp4" >>)]
  /\ UNCHANGED << runVars, geo, rec >>

\* Line 106: cv2.VideoWriter creates the file, or stays closed without
\* raising when its directory is missing.
PathWriter ==
  /\ pth.pc = "writer"
  /\ LET tmp == PurePath(pth.tmp_video)
     IN IF Parent(tmp) \in pth.dirs
          THEN pth' = [pth EXCEPT !.pc = "release", !.writer = "open",
                                  !.silent = {tmp}]
          ELSE pth' = [pth EXCEPT !.pc = "release", !.writer = "closed"]
  /\ UNCHANGED << runVars, geo, rec >>

\* Lines 111-151: the frames are written and the writer released.
PathRelease ==
  /\ pth.pc = "release"
  /\ pth' = [pth EXCEPT !.pc = "mux",
                        !.writer = IF pth.writer = "open" THEN "released"
                                   ELSE pth.writer]
  /\ UNCHANGED << runVars, geo, rec >>

\* Lines 157-166: ffmpeg refuses an output that is its input, and fails on an
\* input that is not there; check=True turns both into CalledProcessError.
PathMux ==
  /\ pth.pc = "mux"
  /\ LET tmp == PurePath(pth.tmp_video)
         res == PurePath(pth.output_path)
     IN IF tmp \notin pth.silent \/ tmp = res
          THEN pth' = [pth EXCEPT !.pc = "raised", !.mux = "failed",
                                  !.exc = "CalledProcessError"]
          ELSE pth' = [pth EXCEPT !.pc = "unlink", !.mux = "ok",
                                  !.final = {res}]
  /\ UNCHANGED << runVars, geo, rec >>

\* Lines 167-168.
PathUnlink ==
  /\ pth.pc = "unlink"
  /\ pth' = [pth EXCEPT
               !.pc = "returned",
               !.silent = pth.silent \ {PurePath(pth.tmp_video)},
               !.final = pth.final \ {PurePath(pth.tmp_video)}]
  /\ UNCHANGED << runVars, geo, rec >>

NextPath ==
  \/ PathMkdir
  \/ PathDerive
  \/ PathWriter
  \/ PathRelease
  \/ PathMux
  \/ PathUnlink

SpecPath == InitPath /\ [][NextPath]_vars

\* ==== the threads of record_audio ==========================================
\* rec.main is the position of the main thread in record_audio, rec.key the
\* position of the daemon thread running _wait_for_space; the audio callback
\* runs on a thread of its own while the input stream is open.  rec.tty is
\* the mode of the terminal behind stdin.

\* Line 19; "^C" stands for the character \x03.
StopKeys == {" ", "\r", "\n", "^C"}
Keys     == StopKeys \cup {"x"}

InitRec ==
  /\ RunIdle
  /\ geo = GeoIdle
  /\ pth = PthIdle
  /\ \E t \in BOOLEAN : rec = [RecIdle EXCEPT !.main = "start", !.isTTY = t]

\* Lines 41-43: the event is made and the listener started.
RecStart ==
  /\ rec.main = "start"
  /\ rec' = [rec EXCEPT !.main = "open", !.key = "tcgetattr"]
  /\ UNCHANGED << runVars, geo, pth >>

\* Lines 51-56: entering the with block opens the stream, or raises
\* PortAudioError when there is no input device.
RecOpenStream ==
  /\ rec.main = "open"
  /\ \/ rec' = [rec EXCEPT !.main = "wait", !.stream = "open"]
     \/ rec' = [rec EXCEPT !.main = "raised", !.exc = "PortAudioError"]
  /\ UNCHANGED << runVars, geo, pth >>

\* Lines 47-48.
RecCallback ==
  /\ rec.stream = "open"
  /\ rec.chunks < MaxAudio
  /\ rec' = [rec EXCEPT !.chunks = rec.chunks + 1]
  /\ UNCHANGED << runVars, geo, pth >>

\* Line 57: wait returns when the event is set or when duration has passed;
\* leaving the with block closes the stream.
RecWaitDone ==
  /\ rec.main = "wait"
  /\ \E timeout \in BOOLEAN : timeout \/ rec.stop_event
  /\ rec' = [rec EXCEPT !.main = "save", !.stream = "closed"]
  /\ UNCHANGED << runVars, geo, pth >>

\* Lines 58-59: KeyboardInterrupt reaches the main thread while it waits.
RecInterrupt ==
  /\ rec.main = "wait"
  /\ rec' = [rec EXCEPT !.main = "save", !.stream = "closed",
                        !.stop_event = TRUE]
  /\ UNCHANGED << runVars, geo, pth >>

\* Lines 61-69.
RecSave ==
  /\ rec.main = "save"
  /\ IF rec.chunks = 0
       THEN rec' = [rec EXCEPT !.main = "raised", !.exc = "RuntimeError"]
       ELSE rec' = [rec EXCEPT !.main = "returned"]
  /\ UNCHANGED << runVars, geo, pth >>

\* Line 14: termios.error when stdin is no terminal, caught at lines 24-25.
KeyGetattr ==
  /\ rec.key = "tcgetattr"
  /\ rec' = [rec EXCEPT !.key = IF rec.isTTY THEN "setraw" ELSE "exit"]
  /\ UNCHANGED << runVars, geo, pth >>

\* Line 15.
KeySetraw ==
  /\ rec.key = "setraw"
  /\ rec' = [rec EXCEPT !.key = "loop", !.tty = "raw"]
  /\ UNCHANGED << runVars, geo, pth >>

\* Line 17.
KeyTest ==
  /\ rec.key = "loop"
  /\ rec' = [rec EXCEPT !.key = IF rec.stop_event THEN "restore" ELSE "read"]
  /\ UNCHANGED << runVars, geo, pth >>

\* Lines 18-21: read(1) blocks until a key is pressed.
KeyRead ==
  /\ rec.key = "read"
  /\ \E ch \in Keys :
       IF ch \in StopKeys
         THEN rec' = [rec EXCEPT !.key = "restore", !.stop_event = TRUE]
         ELSE rec' = [rec EXCEPT !.key = "loop"]
  /\ UNCHANGED << runVars, geo, pth >>

\* Lines 22-23.
KeyRestore ==
  /\ rec.key = "restore"
  /\ rec' = [rec EXCEPT !.key = "exit", !.tty = "cooked"]
  /\ UNCHANGED << runVars, geo, pth >>

NextRec ==
  \/ RecStart
  \/ RecOpenStream
  \/ RecCallback
  \/ RecWaitDone
  \/ RecInterrupt
  \/ RecSave
  \/ KeyGetattr
  \/ KeySetraw
  \/ KeyTest
  \/ KeyRead
  \/ KeyRestore

SpecRec == InitRec /\ [][NextRec]_vars

\* ==== properties ===========================================================

Started(p) == \E i \in 1..Len(procs) : procs[i] = p

\* The stages of the strategies: which strategy a position belongs to.
PlainPcs     == {"plain_start", "plain_run"}
ChromakeyPcs == {"chromakey_start", "chromakey_run"}
RembgPcs     == {"rembg_open", "rembg_read", "rembg_bg", "rembg_remove",
                 "rembg_write", "rembg_release", "rembg_mux_start",
                 "rembg_mux_run"}

\* C1: when bg_color is supplied and background_path is absent, whatever
\* remove_bg and the engine are, the run aborts before any file I/O, any
\* recording, animation engine or ffmpeg run and any frame processing.
\* (The `ffmpeg -version` probe of check_requirements is not counted.)
C1_ConfigErrorBeforeAnyWork ==
  (Truthy(args.bg_color) /\ ~Truthy(args.bg)) =>
    /\ ~ioDone
    /\ \A i \in 1..Len(procs) : procs[i] = "ffmpeg_version"
    /\ capPos = 0 /\ frame_idx = 0
    /\ (Terminated => pc = "failed")

\* C2: compose_rembg writes frames strictly in source order, none dropped:
\* the k-th frame written is the composite of the k-th decoded source frame
\* (on the background of its iteration), the writer is never more than the
\* frame in progress behind the decoder, and when the stream ends by
\* end-of-source all srcLen decoded frames have been written.
C2_FramesInSourceOrder ==
  /\ \A k \in 1..Len(written) :
       /\ written[k].src = k
       /\ written[k].bg = IF bg_cap # "none" THEN bgYielded[k] ELSE 0
  /\ Len(written) = frame_idx
  /\ Len(written) \in {capPos - 1, capPos}
  /\ pc = "rembg_read" => Len(written) = capPos
  /\ cap = "released" => (capPos = srcLen /\ Len(written) = srcLen)

\* C2 witness: a stream of at least two frames ran to its end on a
\* background video.
C2_Witness ==
  cap = "released" /\ Len(written) >= 2 /\ srcLen >= 2 /\ bg_cap = "released"

\* C3 as stated: with a video background, for every N >= 1 and every B the
\* provider never raises and has supplied N frames when the stream ends.
C3_Original ==
  bg_cap # "none" =>
    /\ exc # "cv2.error"
    /\ (cap = "released" => Len(bgYielded) = srcLen)

\* C3 amended: with a background video of B >= 1 decodable frames (B < N
\* included) the provider never raises, supplies one valid frame per source
\* frame processed, wrapping to the first frame after the last, and has
\* supplied exactly N frames when the stream ends.
C3_BackgroundLoops ==
  (bg_cap # "none" /\ bgLen >= 1) =>
    /\ exc # "cv2.error"
    /\ \A k \in 1..Len(bgYielded) : bgYielded[k] = ((k - 1) % bgLen) + 1
    /\ Len(bgYielded) \in {capPos - 1, capPos}
    /\ pc \in {"rembg_remove", "rembg_write", "rembg_read"} =>
         Len(bgYielded) = capPos
    /\ (cap = "released" => Len(bgYielded) = srcLen)

\* C3 witness: the background video is shorter than the source and the
\* stream ran to its end, so the provider wrapped around.
C3_Witness ==
  /\ bg_cap = "released" /\ bgLen >= 1 /\ bgLen < srcLen
  /\ Len(bgYielded) = srcLen

\* C4: in the chromakey path a video background shorter than the source is
\* restarted from its first frame when exhausted, and the output has one
\* composite frame per source frame (up to the length of the audio).
C4_ChromakeyLoopsBackground ==
  (pc = "done" /\ "chromakey" \in invoked /\ BgIsVideo(args.bg)
     /\ bgLen >= 1 /\ bgLen < srcLen) =>
    /\ Len(outFrames) = Min(srcLen, audioLen)
    /\ \A k \in 1..Len(outFrames) :
         /\ outFrames[k].src = k
         /\ outFrames[k].bg = ((k - 1) % bgLen) + 1

\* C5: when compose_rembg has returned or raised, every decoder and encoder
\* it opened has been released.
C5_ReleasedOnEveryExit ==
  (pc \in {"report", "finally", "done", "failed"}) =>
    (cap # "open" /\ bg_cap # "open" /\ out # "open")

\* C6: when compose_rembg has returned or raised, the _noaudio intermediate
\* file does not exist.
C6_IntermediateRemoved ==
  (pc \in {"report", "finally", "done", "failed"}) => tmp_video = "absent"

\* C7: the working directory made by mkdtemp is gone whenever main has ended.
C7_WorkdirRemoved == Terminated => ~workdir

\* C8: a file exists at output_path at the end of a run only when the run
\* succeeded, and then it is complete; a failed run leaves none.
C8_NoPartialOutput ==
  (Terminated /\ output # "absent") => (pc = "done" /\ output = "complete")

\* C9: on every path the output is as long as the shorter of the source
\* video and the audio, and it shows each source frame once (no repeated
\* tail frame).
C9_OutputLengthIsMin ==
  pc = "done" =>
    /\ Len(outFrames) = Min(srcLen, audioLen)
    /\ \A k \in 1..Len(outFrames) : outFrames[k].src = k

\* C10: compose_final runs at most one strategy, and only the one the options
\* select: passthrough when remove_bg is false (no session, no frame loop, no
\* chromakey filter graph, whatever bg and bg_color are), chromakey when
\* remove_bg is true and bg_color is set, segmentation when remove_bg is
\* true and bg_color is absent; a run that is past the dispatch has invoked
\* exactly one.
C10_OneStrategy ==
  /\ Cardinality(invoked) <= 1
  /\ args.no_bg_removal => invoked \subseteq {"plain"}
  /\ (~args.no_bg_removal /\ args.bg_color # None) => invoked \subseteq {"chromakey"}
  /\ (~args.no_bg_removal /\ args.bg_color = None) => invoked \subseteq {"rembg"}
  /\ pc \in PlainPcs => invoked = {"plain"}
  /\ pc \in ChromakeyPcs => invoked = {"chromakey"}
  /\ pc \in RembgPcs => invoked = {"rembg"}
  /\ pc \in {"report", "done"} => Cardinality(invoked) = 1
  /\ Started("ffmpeg_plain") => invoked = {"plain"}
  /\ Started("ffmpeg_chromakey") => invoked = {"chromakey"}
  /\ (session > 0 \/ cap # "none" \/ Started("ffmpeg_mux")) => invoked = {"rembg"}

\* C10 witness: a passthrough run completed although a background and a key
\* colour were given.
C10_Witness ==
  /\ pc = "done" /\ invoked = {"plain"}
  /\ args.bg # None /\ args.bg_color # None

\* C11: in compose_rembg, when the source video cannot be opened the run
\* fails at once: no sink is created, the frame loop is not entered and the
\* mux is never started.
C11_UnopenableSourceFailsAtOnce ==
  ("rembg" \in invoked /\ ~srcOpens /\ pc # "rembg_open") =>
    /\ out = "none" /\ tmp_video = "absent"
    /\ pc \in {"finally", "failed"}
    /\ ~Started("ffmpeg_mux")
    /\ ~saved

\* C12: a compose_rembg run that decoded zero frames never starts the mux and
\* never reports success.
C12_ZeroFramesIsFatal ==
  ("rembg" \in invoked /\ cap = "released" /\ srcLen = 0 /\ written = << >>) =>
    /\ ~Started("ffmpeg_mux")
    /\ ~saved
    /\ pc # "done"

\* C13: an engine that exits 0 and leaves no .mp4 ends the run with the
\* RuntimeError of the empty result, not with the CalledProcessError of a
\* non-zero exit, and compose_final is never invoked.
C13_EmptyEngineResult ==
  /\ engineOut = "no_video" =>
       /\ exc = "RuntimeError"
       /\ pc \in {"finally", "failed"}
       /\ animated = None
       /\ invoked = {} /\ output = "absent" /\ ~saved
       /\ \A i \in 1..Len(procs) : procs[i] \notin
            {"ffmpeg_plain", "ffmpeg_chromakey", "ffmpeg_mux"}
  /\ engineOut = "exit_nonzero" => exc = "CalledProcessError"
  /\ invoked # {} => engineOut = "video"

\* C13 witness: the run has ended after an engine that exited 0 without a
\* video.
C13_Witness == engineOut = "no_video" /\ pc = "failed" /\ failedProc = None

\* C14: every external process is started at most once per run, and a
\* non-zero exit is fatal: it is the last process of the run, the
\* CalledProcessError propagates into main's finally clause, and the run
\* neither prints "Saved" nor ends as done.
C14_ProcessesOnceAndFatal ==
  /\ \A i, j \in 1..Len(procs) : i # j => procs[i] # procs[j]
  /\ failedProc # None =>
       /\ procs[Len(procs)] = failedProc
       /\ exc = "CalledProcessError"
       /\ pc \in {"finally", "failed"}
       /\ ~saved
       /\ output # "complete"

\* C14 witness: the run has ended after the mux exited non-zero.
C14_Witness == failedProc = "ffmpeg_mux" /\ pc = "failed"

\* The stage of the Video Assembler a compose_rembg run is in.
RembgStage ==
  CASE pc = "rembg_open" -> "OPENING_SOURCE"
    [] pc \in {"rembg_read", "rembg_bg", "rembg_remove", "rembg_write"} ->
         "STREAMING_FRAMES"
    [] pc = "rembg_release" -> "CLOSING_STREAMS"
    [] pc \in {"rembg_mux_start", "rembg_mux_run"} -> "MUXING_AUDIO"
    [] pc \in {"report", "finally", "done", "failed"} /\ "rembg" \in invoked ->
         IF saved THEN "DONE" ELSE "FAILED"
    [] OTHER -> "NOT_STARTED"

StageSteps ==
  { << "NOT_STARTED", "OPENING_SOURCE" >>,
    << "OPENING_SOURCE", "STREAMING_FRAMES" >>,
    << "STREAMING_FRAMES", "CLOSING_STREAMS" >>,
    << "CLOSING_STREAMS", "MUXING_AUDIO" >>,
    << "MUXING_AUDIO", "DONE" >> }
  \cup { << st, "FAILED" >> : st \in { "OPENING_SOURCE", "STREAMING_FRAMES",
                                       "CLOSING_STREAMS", "MUXING_AUDIO" } }

\* C16: a compose_rembg run goes through OPENING_SOURCE, STREAMING_FRAMES,
\* CLOSING_STREAMS, MUXING_AUDIO, DONE in this order; the mux is started only
\* after the source decoder, the background decoder and the writer were
\* released; DONE follows a successful mux only; a failure leads to FAILED,
\* after which no stage runs.
C16_StageOrder ==
  /\ [](Started("ffmpeg_mux") =>
          (cap = "released" /\ out = "released" /\ bg_cap # "open"))
  /\ [](RembgStage = "MUXING_AUDIO" =>
          (cap = "released" /\ out = "released" /\ bg_cap # "open"))
  /\ [](RembgStage = "DONE" =>
          (Started("ffmpeg_mux") /\ failedProc = None /\ output = "complete"))
  /\ [][ \/ RembgStage' = RembgStage
         \/ << RembgStage, RembgStage' >> \in StageSteps ]_vars
  /\ [][ RembgStage = "FAILED" =>
           (RembgStage' = "FAILED" /\ UNCHANGED << rembgVars, outputVars,
                                                   procs >>)
       ]_vars

\* C16 witness: a compose_rembg run reached DONE after streaming frames.
C16_Witness == RembgStage = "DONE" /\ Len(written) >= 1 /\ pc = "done"

\* C17: new_session is called exactly once per compose_rembg run, before the
\* first frame is read, and every remove() call of the run gets that session,
\* for every frame count (zero included).
C17_OneSession ==
  /\ session <= 1
  /\ pc \in (RembgPcs \ {"rembg_open"}) => session = 1
  /\ (cap # "none" \/ capPos > 0) => session = 1
  /\ \A k \in 1..Len(removedWith) : removedWith[k] = 1
  /\ Len(removedWith) \in {frame_idx, frame_idx + 1}
  /\ cap = "released" => (Len(removedWith) = srcLen /\ session = 1)

\* C17 witness: a stream of at least two frames ran to its end.
C17_Witness == cap = "released" /\ Len(removedWith) >= 2

\* C15: for every kind of background and every source frame size, the
\* background used for a frame and the composite written to the sink have
\* exactly the canvas dimensions width x height.
C15_CanvasDimensions ==
  /\ geo.pc \in {"remove", "scale", "paste", "write"} =>
       geo.bg_img = << geo.width, geo.height >>
  /\ geo.pc = "write" => geo.composite = << geo.width, geo.height >>
  /\ \A i \in 1..Len(geo.sink) : geo.sink[i] = << geo.height, geo.width >>

\* C15 witness: two composites were written over a background video on a
\* canvas that is not square, from source frames of another size.
C15_Witness ==
  /\ Len(geo.sink) >= 2
  /\ geo.bg = "video"
  /\ geo.width # geo.height
  /\ FromArray(geo.frame) # << geo.width, geo.height >>

\* C18: the foreground of size aw x ah is resized to height H and width
\* floor(aw * H / ah), and pasted at (floor((W - new_w) / 2), 0), so that the
\* left and right margins differ by at most one pixel, negative offsets
\* included.
C18_ScaleAndCentre ==
  geo.pc = "write" =>
    LET aw == geo.frame[2]
        ah == geo.frame[1]
        right == geo.width - geo.new_w - geo.x
    IN /\ geo.new_w = (aw * geo.height) \div ah
       /\ geo.fg_rgba = << geo.new_w, geo.height >>
       /\ geo.y = 0
       /\ geo.x = (geo.width - geo.new_w) \div 2
       /\ right - geo.x \in {0, 1}

\* C19: for every output_path the intermediate path differs from it and lies
\* in the same, existing directory, so the mux never reads and writes one
\* file, and after a successful return the deliverable is at output_path.
C19_IntermediateBesideOutput ==
  LET tmp == PurePath(pth.tmp_video)
      res == PurePath(pth.output_path)
  IN /\ pth.pc \in {"writer", "release", "mux", "unlink", "returned", "raised"} =>
          /\ tmp # res
          /\ Parent(tmp) = Parent(res)
          /\ Parent(tmp) \in pth.dirs
     /\ pth.mux # "none" => tmp # res
     /\ pth.pc = "returned" => res \in pth.final

\* C20: whenever record_audio has returned or raised, in every interleaving
\* of the main thread, the key listener and the audio callback, the terminal
\* is not in raw mode.
C20_TerminalRestored ==
  rec.main \in {"returned", "raised"} => rec.tty = "cooked"

====
